---- MODULE Spec2Model ----
(***************************************************************************)
(* korefi_commons: the feature-flag client (feature_flags.py), the S3      *)
(* storage client (s3.py) and the two path/URI helpers                     *)
(* (filepath_generator.py, s3uri_generator.py).                            *)
(*                                                                         *)
(* Each component is a state machine of its own: SpecFlags, SpecS3 and     *)
(* SpecPaths share Init and differ in the operations they run.  A call is  *)
(* one action; what the caller observes of it (result, I/O performed) is   *)
(* recorded in a "last call" variable of the component.                    *)
(***************************************************************************)
EXTENDS Integers, Sequences, FiniteSets, TLC

VARIABLES
    clock,          \* time.monotonic(): seconds, non-decreasing
    ids,            \* the KORE_FEATURE_FLAGS_* identifiers that are set
    _cache,         \* FeatureFlagService._cache
    _token,         \* FeatureFlagService._token (NoToken = None)
    _last_refresh,  \* FeatureFlagService._last_refresh
    _client,        \* FeatureFlagService._client is not None
    lastProbe,      \* time of the last call that touched a source, Never if none
    issued,         \* the token the backend handed out last, NoToken if none
    flast,          \* what the last is_on call did and returned
    thr,            \* per thread: where it stands in is_on, and what its call did
    serial,         \* no is_on call has begun while another was in progress
    bucket,         \* keys of the objects stored in S3Service.bucket_name
    s3last,         \* what the last S3Service call did and returned
    plast           \* the last call of a path helper: arguments and outcome

flagVars == <<clock, ids, _cache, _token, _last_refresh, _client, issued,
              lastProbe, flast>>

-----------------------------------------------------------------------------
(* Bounds *)

MaxClock == 135
MaxObjects == 2

(* Program constants *)

DEFAULT_TTL_SECONDS == 45
StopAfterAttempt == 3       \* stop=stop_after_attempt(3)
MaxKeys == 1                \* list_objects_v2(..., MaxKeys=1)

-----------------------------------------------------------------------------
(* Values *)

FlagNames == {"f"}

\* JSON values a flag can hold: the two booleans and a non-boolean (a string).
JsonVals == {"true", "false", "str"}
Missing == "missing"

IsBool(v) == v \in {"true", "false"}

\* A JSON object of flags: every name is bound to a value or Missing.
Mappings == [FlagNames -> JsonVals \cup {Missing}]
EmptyMap == [n \in FlagNames |-> Missing]

\* What a source (the local file, a remote body) holds:
\*   dict        a JSON object
\*   list        valid JSON that is not an object
\*   malformed   text that is not JSON
\*   undecodable bytes that are not UTF-8
Dict(m) == [kind |-> "dict", m |-> m]
NonDict(k) == [kind |-> k, m |-> EmptyMap]
Contents == {Dict(m) : m \in Mappings} \cup
            {NonDict(k) : k \in {"list", "malformed", "undecodable"}}

\* The local file as one refresh finds it.
FileStates == Contents \cup {NonDict("absent"), NonDict("unreadable")}

NoToken == 0
Tokens == {1, 2}
Never == -1

AllIds == {"APPLICATION", "ENVIRONMENT", "PROFILE"}

\* start_configuration_session: raises, or answers with a token or without.
StartOutcomes == {[exc |-> e, token |-> NoToken] : e \in {"ClientError", "BotoCoreError"}}
                 \cup {[exc |-> "none", token |-> t] : t \in Tokens \cup {NoToken}}

\* get_latest_configuration: raises, or answers {NextPollConfigurationToken?,
\* Configuration}; the body may be empty.
EmptyBody == NonDict("empty")
GetOutcomes == {[exc |-> e, next |-> NoToken, body |-> EmptyBody] :
                    e \in {"ClientError", "BotoCoreError"}}
               \cup {[exc |-> "none", next |-> t, body |-> b] :
                    t \in Tokens \cup {NoToken}, b \in Contents \cup {EmptyBody}}

NoIO == [exists |-> 0, open |-> 0, client |-> 0, start |-> 0, get |-> 0]

-----------------------------------------------------------------------------
(* feature_flags.py: FeatureFlagService *)

\* json.load / json.loads(raw.decode("utf-8")) of a source's content.
JsonLoad(c) ==
    CASE c.kind = "undecodable" -> [exc |-> "UnicodeDecodeError", value |-> c]
      [] c.kind = "malformed"   -> [exc |-> "JSONDecodeError", value |-> c]
      [] OTHER                  -> [exc |-> "none", value |-> c]

\* except (ClientError, BotoCoreError, OSError, json.JSONDecodeError)
Caught(exc) == exc \in {"ClientError", "BotoCoreError", "OSError", "JSONDecodeError"}

\* now - self._last_refresh < self.ttl
TtlSkips(now) == now - _last_refresh < DEFAULT_TTL_SECONDS

\* Variant: the file is passed over when the remote identifiers are all set.
LocalPathExistsUnlessRemote(fs) == fs.kind # "absent" /\ ids # AllIds

\* self._local_path.exists()
LocalPathExists(fs) == fs.kind # "absent"

\* Variant: the cache is emptied before the file is read, so a read that fails
\* leaves an empty cache behind.
LocalBranchResetsCache(fs) ==
    LET io == [NoIO EXCEPT !.exists = 1, !.open = 1]
        base == [cache |-> Dict(EmptyMap), token |-> _token, client |-> _client,
                 exc |-> "none", io |-> io, src |-> fs, used |-> NoToken]
    IN  IF fs.kind = "unreadable"
        THEN [base EXCEPT !.exc = "OSError"]
        ELSE LET r == JsonLoad(fs)
             IN  IF r.exc # "none" THEN [base EXCEPT !.exc = r.exc]
                 ELSE [base EXCEPT !.cache = r.value]

\* if local_path.exists(): with open(...) as handle: self._cache = json.load(handle)
LocalBranch(fs) ==
    LET io == [NoIO EXCEPT !.exists = 1, !.open = 1]
        base == [cache |-> _cache, token |-> _token, client |-> _client,
                 exc |-> "none", io |-> io, src |-> fs, used |-> NoToken]
    IN  IF fs.kind = "unreadable"
        THEN [base EXCEPT !.exc = "OSError"]
        ELSE LET r == JsonLoad(fs)
             IN  IF r.exc # "none" THEN [base EXCEPT !.exc = r.exc]
                 ELSE [base EXCEPT !.cache = r.value]

\* Variant: resp.get("NextPollConfigurationToken") without the held token as
\* default, so a response without the key clears the token.
NextPollTokenOrNone(go, held) == go.next

\* Variant: the token of the session is kept for every later fetch.
NextPollTokenKept(go, held) == held

\* resp.get("NextPollConfigurationToken", self._token)
NextPollToken(go, held) == IF go.next = NoToken THEN held ELSE go.next

\* else: the AppConfig path
RemoteBranch(fs, so, go) ==
    LET io0 == [NoIO EXCEPT !.exists = 1, !.client = IF _client THEN 0 ELSE 1]
        base == [cache |-> _cache, token |-> _token, client |-> TRUE,
                 exc |-> "none", io |-> io0, src |-> fs, used |-> NoToken]
    IN  IF ids # AllIds THEN base                       \* missing identifiers: return
        ELSE
        LET started == _token = NoToken
            io1 == [io0 EXCEPT !.start = IF started THEN 1 ELSE 0]
            tok1 == IF started THEN so.token ELSE _token
        IN  IF started /\ so.exc # "none"
            THEN [base EXCEPT !.exc = so.exc, !.io = io1]
            ELSE IF tok1 = NoToken                          \* no token: return
            THEN [base EXCEPT !.token = tok1, !.io = io1]
            ELSE
            LET io2 == [io1 EXCEPT !.get = 1]
                got == [base EXCEPT !.io = io2, !.used = tok1]
            IN  IF go.exc # "none"
                THEN [got EXCEPT !.exc = go.exc, !.token = tok1]
                ELSE
                LET tok2 == NextPollToken(go, tok1)
                    now2 == [got EXCEPT !.token = tok2, !.src = go.body]
                IN  IF go.body.kind = "empty" THEN now2      \* if raw: is false
                    ELSE LET r == JsonLoad(go.body)
                         IN  IF r.exc # "none" THEN [now2 EXCEPT !.exc = r.exc]
                             ELSE [now2 EXCEPT !.cache = r.value]

\* Variant: the timestamp is set only when the refresh went through.
LastRefreshOnSuccess(now, exc) == IF exc = "none" THEN now ELSE _last_refresh

\* finally: self._last_refresh = now
FinallyLastRefresh(now, exc) == now

\* FeatureFlagService._refresh.  exc is what escapes to is_on.
_refresh(now, fs, so, go) ==
    IF TtlSkips(now)
    THEN [cache |-> _cache, token |-> _token, client |-> _client, exc |-> "none",
          io |-> NoIO, src |-> NonDict("none"), used |-> NoToken,
          last_refresh |-> _last_refresh, attempted |-> FALSE]
    ELSE LET b == IF LocalPathExists(fs) THEN LocalBranch(fs)
                  ELSE RemoteBranch(fs, so, go)
         IN  [cache |-> b.cache, token |-> b.token, client |-> b.client,
              exc |-> IF Caught(b.exc) THEN "none" ELSE b.exc,
              io |-> b.io, src |-> b.src, used |-> b.used,
              last_refresh |-> FinallyLastRefresh(now, b.exc), attempted |-> TRUE]

ToJson(b) == IF b THEN "true" ELSE "false"

\* Variant: a non-boolean value is answered by its truthiness, bool(value).
IsOnLookupTruthy(cache, name, default) ==
    IF cache.kind # "dict"
    THEN [exc |-> "AttributeError", value |-> FALSE, warned |-> FALSE]
    ELSE LET value == IF cache.m[name] = Missing THEN ToJson(default) ELSE cache.m[name]
         IN  IF IsBool(value)
             THEN [exc |-> "none", value |-> (value = "true"), warned |-> FALSE]
             ELSE [exc |-> "none", value |-> TRUE, warned |-> TRUE]

\* is_on after self._refresh(): the lookup in the cache.
IsOnLookup(cache, name, default) ==
    IF cache.kind # "dict"
    THEN [exc |-> "AttributeError", value |-> FALSE, warned |-> FALSE]
    ELSE LET value == IF cache.m[name] = Missing THEN ToJson(default) ELSE cache.m[name]
         IN  IF IsBool(value)
             THEN [exc |-> "none", value |-> (value = "true"), warned |-> FALSE]
             ELSE [exc |-> "none", value |-> default, warned |-> TRUE]

\* Where a call at time now lies relative to the last call that touched a source:
\* less than 45 seconds after it, or 45 seconds or more.
Window(now) ==
    IF lastProbe = Never THEN "never"
    ELSE IF now - lastProbe < 45 THEN "within" ELSE "expired"

NoCall == [op |-> "none", name |-> "f", default |-> FALSE,
           window |-> "never", first |-> FALSE, attempted |-> FALSE,
           file |-> "unseen", io |-> NoIO,
           src |-> NonDict("none"), used |-> NoToken,
           exc |-> "none", value |-> FALSE, warned |-> FALSE,
           cacheBefore |-> Dict(EmptyMap), tokenBefore |-> NoToken,
           expect |-> NoToken]

\* FeatureFlagService.is_on(name, default) at the current clock, when the file
\* system answers fs and the backend answers so and go during the call.
IsOnCall(name, default, fs, so, go) ==
    LET r == _refresh(clock, fs, so, go)
        l == IF r.exc # "none"
             THEN [exc |-> r.exc, value |-> FALSE, warned |-> FALSE]
             ELSE IsOnLookup(r.cache, name, default)
        \* what the backend handed out in the calls this attempt made
        opened == IF r.io.start = 1 /\ so.exc = "none" /\ so.token # NoToken
                  THEN so.token ELSE issued
        polled == IF r.io.get = 1 /\ go.exc = "none" /\ go.next # NoToken
                  THEN go.next ELSE opened
    IN  /\ _cache' = r.cache
        /\ _token' = r.token
        /\ issued' = polled
        /\ _client' = r.client
        /\ _last_refresh' = r.last_refresh
        /\ lastProbe' = IF r.io.exists = 1 THEN clock ELSE lastProbe
        /\ flast' = [op |-> "is_on", name |-> name, default |-> default,
                     window |-> Window(clock), first |-> flast.op = "none",
                     attempted |-> r.attempted,
                     file |-> IF r.attempted THEN fs.kind ELSE "unseen",
                     io |-> r.io, src |-> r.src,
                     used |-> r.used, exc |-> l.exc, value |-> l.value,
                     warned |-> l.warned, cacheBefore |-> _cache,
                     tokenBefore |-> _token,
                     expect |-> IF r.io.get = 1 THEN opened ELSE NoToken]
        /\ UNCHANGED <<clock, ids>>

\* The answers of the environment are drawn only where the call asks for them.
AnyStart == [exc |-> "none", token |-> NoToken]
AnyGet == [exc |-> "none", next |-> NoToken, body |-> EmptyBody]

IsOn(name, default) ==
    \E fs \in FileStates :
      \E so \in (IF fs.kind = "absent" /\ _token = NoToken THEN StartOutcomes ELSE {AnyStart}) :
        \E go \in (IF fs.kind = "absent" /\ (_token # NoToken \/ so.token # NoToken)
                    THEN GetOutcomes ELSE {AnyGet}) :
          IsOnCall(name, default, fs, so, go)

Deltas == {44, 45, 46}

\* time passes between calls
Tick(d) ==
    /\ clock + d <= MaxClock
    /\ clock' = clock + d
    /\ UNCHANGED <<ids, _cache, _token, _last_refresh, _client, lastProbe, issued,
                   flast>>

IdConfigs == {AllIds, {"APPLICATION", "ENVIRONMENT"}}

\* FeatureFlagService.__init__
InitFlags ==
    /\ clock = 0
    /\ ids \in IdConfigs
    /\ _cache = Dict(EmptyMap)
    /\ _token = NoToken
    /\ _last_refresh = 0
    /\ _client = FALSE
    /\ lastProbe = Never
    /\ issued = NoToken
    /\ flast = NoCall

NextFlags ==
    \/ \E d \in Deltas : Tick(d) /\ UNCHANGED <<thr, serial, bucket, s3last, plast>>
    \/ \E name \in FlagNames, default \in BOOLEAN :
          IsOn(name, default) /\ UNCHANGED <<thr, serial, bucket, s3last, plast>>

-----------------------------------------------------------------------------
(* feature_flags.py: is_on called from two threads on one FeatureFlagService.
   The instance has no lock; a thread can be preempted between any two
   statements, and the backend calls are where it waits.  No local file exists
   and the identifiers are set, so every refresh takes the AppConfig path. *)

threadVars == <<thr, serial>>

Threads == {1, 2}

\* A thread outside is_on; now, window, passed, opened, fetched, used and exc
\* describe its call in progress or, when idle, its last call.
IdleThread == [pc |-> "idle", now |-> 0, window |-> "never", passed |-> FALSE,
               opened |-> FALSE, fetched |-> FALSE, used |-> NoToken, exc |-> "none"]

\* now = time.monotonic(); if now - self._last_refresh < self.ttl: return
Check(t) ==
    LET passes == ~TtlSkips(clock)
    IN  /\ thr[t].pc = "idle"
        /\ thr' = [thr EXCEPT ![t] =
                     [IdleThread EXCEPT !.now = clock,
                                        !.pc = IF passes THEN "enter" ELSE "idle",
                                        !.passed = passes,
                                        !.window = IF passes THEN Window(clock) ELSE "never"]]
        /\ lastProbe' = IF passes THEN clock ELSE lastProbe
        /\ serial' = (serial /\ \A u \in Threads \ {t} : thr[u].pc = "idle")
        /\ UNCHANGED <<clock, ids, _cache, _token, _last_refresh, _client, issued, flast>>

\* if self._client is None: ...; if not self._token: start_configuration_session(...)
Enter(t) ==
    /\ thr[t].pc = "enter"
    /\ _client' = TRUE
    /\ thr' = [thr EXCEPT ![t].pc = IF _token = NoToken THEN "start" ELSE "get",
                           ![t].opened = (_token = NoToken)]
    /\ UNCHANGED <<clock, ids, _cache, _token, _last_refresh, lastProbe, issued, flast,
                   serial>>

\* start_configuration_session answers so:
\* self._token = response.get("InitialConfigurationToken"); if not self._token: return
StartReturn(t, so) ==
    /\ thr[t].pc = "start"
    /\ IF so.exc # "none"
       THEN /\ thr' = [thr EXCEPT ![t].pc = "finally", ![t].exc = so.exc]
            /\ UNCHANGED _token
       ELSE /\ _token' = so.token
            /\ thr' = [thr EXCEPT ![t].pc = IF so.token = NoToken THEN "finally" ELSE "get"]
    /\ UNCHANGED <<clock, ids, _cache, _last_refresh, _client, lastProbe, issued, flast,
                   serial>>

\* get_latest_configuration(ConfigurationToken=self._token) is sent
GetCall(t) ==
    /\ thr[t].pc = "get"
    /\ thr' = [thr EXCEPT ![t].pc = "got", ![t].fetched = TRUE, ![t].used = _token]
    /\ UNCHANGED <<clock, ids, _cache, _token, _last_refresh, _client, lastProbe, issued,
                   flast, serial>>

\* get_latest_configuration answers go: the token is replaced, the body parsed
GetReturn(t, go) ==
    /\ thr[t].pc = "got"
    /\ IF go.exc # "none"
       THEN /\ thr' = [thr EXCEPT ![t].pc = "finally", ![t].exc = go.exc]
            /\ UNCHANGED <<_token, _cache>>
       ELSE /\ _token' = NextPollToken(go, _token)
            /\ IF go.body.kind = "empty"
               THEN /\ thr' = [thr EXCEPT ![t].pc = "finally"]
                    /\ UNCHANGED _cache
               ELSE LET r == JsonLoad(go.body)
                    IN  /\ thr' = [thr EXCEPT ![t].pc = "finally", ![t].exc = r.exc]
                        /\ _cache' = IF r.exc = "none" THEN r.value ELSE _cache
    /\ UNCHANGED <<clock, ids, _last_refresh, _client, lastProbe, issued, flast, serial>>

\* finally: self._last_refresh = now, with the now this thread read at its check;
\* is_on then reads the cache and returns.
Finally(t) ==
    /\ thr[t].pc = "finally"
    /\ _last_refresh' = FinallyLastRefresh(thr[t].now, thr[t].exc)
    /\ thr' = [thr EXCEPT ![t].pc = "idle"]
    /\ UNCHANGED <<clock, ids, _cache, _token, _client, lastProbe, issued, flast, serial>>

\* The answers of get_latest_configuration the threads are given: a failure,
\* or any next-token with an empty body, a snapshot or malformed text.
ThreadBodies == {EmptyBody, Dict([n \in FlagNames |-> "true"]), NonDict("malformed")}
ThreadGetOutcomes == {go \in GetOutcomes : go.exc # "none" \/ go.body \in ThreadBodies}

InitThreads ==
    /\ thr = [t \in Threads |-> IdleThread]
    /\ serial = TRUE

NextThreads ==
    \/ \E d \in Deltas : Tick(d) /\ UNCHANGED <<threadVars, bucket, s3last, plast>>
    \/ \E t \in Threads : Check(t) /\ UNCHANGED <<bucket, s3last, plast>>
    \/ \E t \in Threads : Enter(t) /\ UNCHANGED <<bucket, s3last, plast>>
    \/ \E t \in Threads, so \in StartOutcomes :
          StartReturn(t, so) /\ UNCHANGED <<bucket, s3last, plast>>
    \/ \E t \in Threads : GetCall(t) /\ UNCHANGED <<bucket, s3last, plast>>
    \/ \E t \in Threads, go \in ThreadGetOutcomes :
          GetReturn(t, go) /\ UNCHANGED <<bucket, s3last, plast>>
    \/ \E t \in Threads : Finally(t) /\ UNCHANGED <<bucket, s3last, plast>>

-----------------------------------------------------------------------------
(* s3.py: S3Service *)

s3Vars == <<bucket, s3last>>

\* Object keys are strings; a character is its code point.
Keys == {<<1>>, <<1, 2>>, <<1, 2, 3>>, <<1, 3>>, <<2>>}
Prefixes == {<<>>, <<1>>, <<1, 2>>, <<3>>}

IsPrefix(p, k) == Len(p) <= Len(k) /\ SubSeq(k, 1, Len(p)) = p

\* S3 lists keys in ascending binary order.
RECURSIVE KeyLess(_, _)
KeyLess(a, b) ==
    IF a = <<>> THEN b # <<>>
    ELSE IF b = <<>> THEN FALSE
    ELSE IF Head(a) # Head(b) THEN Head(a) < Head(b)
    ELSE KeyLess(Tail(a), Tail(b))

RECURSIVE Sorted(_)
Sorted(ks) ==
    IF ks = {} THEN <<>>
    ELSE LET k == CHOOSE x \in ks : \A y \in ks \ {x} : KeyLess(x, y)
         IN  <<k>> \o Sorted(ks \ {k})

\* Errors: a type and, for a ClientError, response["Error"]["Code"].
NoErr == [type |-> "none", code |-> ""]
ClientError(code) == [type |-> "ClientError", code |-> code]
Err(t) == [type |-> t, code |-> ""]

\* What one backend call can answer.
PutErrors == {ClientError("500"), Err("ConnectionError"), Err("ParamValidationError")}
DownloadOk == [list |-> NoErr, get |-> NoErr]
DownloadErrors == {[list |-> ClientError("500"), get |-> NoErr],
                   [list |-> NoErr, get |-> ClientError("404")],
                   [list |-> NoErr, get |-> Err("ConnectionError")]}
HeadErrors == {ClientError("403"), ClientError("500"), Err("ConnectionError"), Err("BotoCoreError")}

\* s3_client.list_objects_v2(Bucket, Prefix=prefix, MaxKeys=maxKeys)["Contents"]
ListObjectsV2(prefix, maxKeys) ==
    LET all == Sorted({k \in bucket : IsPrefix(prefix, k)})
    IN  SubSeq(all, 1, IF Len(all) < maxKeys THEN Len(all) ELSE maxKeys)

None == <<0>>       \* Python's None where a key is expected

\* Variant: a listing without a match raises instead of answering None.
FindActualFileKeyOrRaise(prefix, lo) ==
    IF lo # NoErr THEN [exc |-> lo, key |-> None]
    ELSE LET contents == ListObjectsV2(prefix, MaxKeys)
         IN  IF contents # <<>> THEN [exc |-> NoErr, key |-> contents[1]]
             ELSE [exc |-> ClientError("404"), key |-> None]

\* S3Service.find_actual_file_key: the listing fails with lo, or answers.
FindActualFileKey(prefix, lo) ==
    IF lo # NoErr THEN [exc |-> lo, key |-> None]
    ELSE LET contents == ListObjectsV2(prefix, MaxKeys)
         IN  [exc |-> NoErr, key |-> IF contents # <<>> THEN contents[1] ELSE None]

\* Variant: the caller's literal key is downloaded.
DownloadLiteralKey(file_key, resolved) == file_key

\* The key download_file hands to s3_client.download_file.
DownloadKey(file_key, resolved) == resolved

\* One run of download_file's body: e = [list |-> lo, get |-> do].
DownloadAttempt(file_key, e) ==
    LET f == FindActualFileKey(file_key, e.list)
    IN  IF f.exc # NoErr
        THEN [exc |-> Err("S3DownloadError"), ret |-> FALSE, lists |-> 1, gets |-> 0,
              puts |-> 0, key |-> None]
        ELSE [exc |-> IF e.get = NoErr THEN NoErr ELSE Err("S3DownloadError"),
              ret |-> e.get = NoErr, lists |-> 1, gets |-> 1, puts |-> 0,
              key |-> DownloadKey(file_key, f.key)]

\* One run of upload_json's / upload_xml's body: json.dumps succeeds or not
\* (upload_xml does not serialize), put_object answers po.
UploadAttempt(file_key, dumpsOk, po) ==
    IF ~dumpsOk
    THEN [exc |-> Err("S3UploadError"), ret |-> FALSE, lists |-> 0, gets |-> 0,
          puts |-> 0, key |-> file_key]
    ELSE [exc |-> IF po = NoErr THEN NoErr ELSE Err("S3UploadError"),
          ret |-> po = NoErr, lists |-> 0, gets |-> 0, puts |-> 1, key |-> file_key]

\* retry=retry_if_exception_type((ClientError, ConnectionError))
RetryTypes == {"ClientError", "ConnectionError"}

\* @retry(stop=stop_after_attempt(3), retry=..., reraise=True): results[i] is
\* what the i-th run of the decorated body ends with; the number of runs made.
RECURSIVE Retrying(_, _)
Retrying(results, n) ==
    IF results[n].exc.type \in RetryTypes /\ n < StopAfterAttempt
    THEN Retrying(results, n + 1)
    ELSE n

RECURSIVE Sum(_, _, _)
Sum(results, field, n) ==
    IF n = 0 THEN 0 ELSE results[n][field] + Sum(results, field, n - 1)

\* What the backend answers to the successive runs of a body: it fails the
\* first f runs with e and succeeds afterwards.
FailsFirst(f, e, ok) == [i \in 1..StopAfterAttempt |-> IF i <= f THEN e ELSE ok]
Schedules(errors, ok) ==
    {FailsFirst(0, ok, ok)} \cup {FailsFirst(f, e, ok) : f \in 1..StopAfterAttempt, e \in errors}

\* self.bucket_name, and the name of some other bucket ("b", "c").
BucketName == <<98>>
OtherBucket == <<99>>

\* A decorated call as its caller sees it.
Retried(op, file_key, sched, results) ==
    LET n == Retrying(results, 1)
    IN  [op |-> op, key |-> file_key, sched |-> sched, attempts |-> n,
         exc |-> results[n].exc, ret |-> results[n].ret,
         lists |-> Sum(results, "lists", n), gets |-> Sum(results, "gets", n),
         puts |-> Sum(results, "puts", n), heads |-> 0, used |-> results[n].key,
         dumps |-> TRUE, bkt |-> BucketName]

NoS3Call == [op |-> "none", key |-> <<>>, sched |-> <<>>, attempts |-> 0,
             exc |-> NoErr, ret |-> FALSE, lists |-> 0, gets |-> 0, puts |-> 0,
             heads |-> 0, used |-> <<>>, dumps |-> TRUE, bkt |-> <<>>]

\* S3Service.upload_json(data, file_key)
UploadJson(file_key, dumpsOk, sched) ==
    LET r == Retried("upload_json", file_key, sched,
                     [i \in 1..StopAfterAttempt |-> UploadAttempt(file_key, dumpsOk, sched[i])])
    IN  /\ Cardinality(bucket \cup {file_key}) <= MaxObjects
        /\ s3last' = [r EXCEPT !.dumps = dumpsOk]
        /\ bucket' = IF r.ret THEN bucket \cup {file_key} ELSE bucket

\* S3Service.upload_xml(data, file_key)
UploadXml(file_key, sched) ==
    LET r == Retried("upload_xml", file_key, sched,
                     [i \in 1..StopAfterAttempt |-> UploadAttempt(file_key, TRUE, sched[i])])
    IN  /\ Cardinality(bucket \cup {file_key}) <= MaxObjects
        /\ s3last' = r
        /\ bucket' = IF r.ret THEN bucket \cup {file_key} ELSE bucket

\* S3Service.download_file(file_key, local_path)
DownloadFile(file_key, sched) ==
    /\ s3last' = Retried("download_file", file_key, sched,
                     [i \in 1..StopAfterAttempt |-> DownloadAttempt(file_key, sched[i])])
    /\ UNCHANGED bucket

\* Variant: every ClientError is taken for "not found".
IsAnyClientError(e) == e.type = "ClientError"

\* if e.response["Error"]["Code"] == "404": return False
IsNotFound(e) == e.type = "ClientError" /\ e.code = "404"

\* S3Service.check_file_exists(file_key): head_object answers ho.
CheckResult(ho) ==
    IF ho = NoErr THEN [exc |-> NoErr, ret |-> TRUE]
    ELSE IF ho.type = "ClientError"
         THEN IF IsNotFound(ho) THEN [exc |-> NoErr, ret |-> FALSE]
              ELSE [exc |-> ho, ret |-> FALSE]
         ELSE [exc |-> ho, ret |-> FALSE]

CheckFileExists(file_key, ho) ==
    LET r == CheckResult(ho)
    IN  /\ s3last' = [NoS3Call EXCEPT !.op = "check_file_exists", !.key = file_key,
                                      !.sched = <<ho>>, !.attempts = 1, !.heads = 1,
                                      !.exc = r.exc, !.ret = r.ret, !.used = file_key,
                                      !.bkt = BucketName]
        /\ UNCHANGED bucket

\* head_object on the store: found, not found, or a failure of the probe.
HeadOutcomes(file_key) ==
    (IF file_key \in bucket THEN {NoErr} ELSE {ClientError("404")}) \cup HeadErrors

\* The least index from `from` on at which str has a character of cs,
\* Len(str) + 1 if there is none.
FirstOf(str, cs, from) ==
    LET hits == {i \in from..Len(str) : str[i] \in cs}
    IN  IF hits = {} THEN Len(str) + 1
        ELSE CHOOSE i \in hits : \A j \in hits : i <= j

\* Characters of a URI by code point: '#' 35, '/' 47, ':' 58, '?' 63.
Alpha == (65..90) \cup (97..122)
SchemeChars == Alpha \cup (48..57) \cup {43, 45, 46}

\* urllib.parse.urlparse(url): scheme, netloc and path; query and fragment are
\* cut off the path.
urlparse(url) ==
    LET i == FirstOf(url, {58}, 1)
        hasScheme == /\ 1 < i /\ i <= Len(url)
                     /\ url[1] \in Alpha
                     /\ \A j \in 1..(i - 1) : url[j] \in SchemeChars
        rest == IF hasScheme THEN SubSeq(url, i + 1, Len(url)) ELSE url
        hasNetloc == Len(rest) >= 2 /\ rest[1] = 47 /\ rest[2] = 47
        d == FirstOf(rest, {35, 47, 63}, 3)
        after == IF hasNetloc THEN SubSeq(rest, d, Len(rest)) ELSE rest
        nofrag == SubSeq(after, 1, FirstOf(after, {35}, 1) - 1)
    IN  [scheme |-> IF hasScheme THEN SubSeq(url, 1, i - 1) ELSE <<>>,
         netloc |-> IF hasNetloc THEN SubSeq(rest, 3, d - 1) ELSE <<>>,
         path   |-> SubSeq(nofrag, 1, FirstOf(nofrag, {63}, 1) - 1)]

\* str.lstrip(chars)
RECURSIVE LStripOf(_, _)
LStripOf(str, cs) ==
    IF str # <<>> /\ Head(str) \in cs THEN LStripOf(Tail(str), cs) ELSE str

\* Variant: the object is read from the bucket the URI names.
GetObjectBucketOfUri(bucket_name, netloc) == netloc

\* The Bucket argument of download_json's get_object call.
GetObjectBucket(bucket_name, netloc) == bucket_name

\* What get_object(Bucket, Key) answers: the body of a stored object, which
\* is JSON text or not, or an error.
Bodies == {"json", "malformed", "undecodable"}
GetObjectOutcomes(bkt, key) ==
    (IF bkt = BucketName /\ key \in bucket
     THEN {[err |-> NoErr, body |-> b] : b \in Bodies}
     ELSE {[err |-> ClientError("NoSuchKey"), body |-> "none"]})
    \cup {[err |-> Err("ConnectionError"), body |-> "none"]}

\* The request download_json(s3_uri) makes.
DownloadJsonRequest(s3_uri) ==
    LET parsed_uri == urlparse(s3_uri)
    IN  [bkt |-> GetObjectBucket(BucketName, parsed_uri.netloc),
         key |-> LStripOf(parsed_uri.path, {47})]

\* S3Service.download_json(s3_uri): get_object answers go.
DownloadJson(s3_uri, go) ==
    LET req == DownloadJsonRequest(s3_uri)
        ok == go.err = NoErr /\ go.body = "json"
    IN  /\ s3last' = [NoS3Call EXCEPT !.op = "download_json", !.key = s3_uri,
                                      !.sched = <<go>>, !.attempts = 1, !.gets = 1,
                                      !.exc = IF ok THEN NoErr ELSE Err("S3DownloadError"),
                                      !.ret = ok, !.used = req.key, !.bkt = req.bkt]
        /\ UNCHANGED bucket

\* "s3://" + bucket + n slashes + key
S3UriOf(b, n, k) == <<115, 51, 58, 47, 47>> \o b \o [i \in 1..n |-> 47] \o k
S3Uris == {S3UriOf(b, n, k) : b \in {BucketName, OtherBucket}, n \in 1..2, k \in Keys}

InitS3 ==
    /\ bucket = {}
    /\ s3last = NoS3Call

NextS3 ==
    \/ \E k \in Keys, d \in BOOLEAN, sched \in Schedules(PutErrors, NoErr) :
          UploadJson(k, d, sched) /\ UNCHANGED <<flagVars, threadVars, plast>>
    \/ \E k \in Keys, sched \in Schedules(PutErrors, NoErr) :
          UploadXml(k, sched) /\ UNCHANGED <<flagVars, threadVars, plast>>
    \/ \E k \in Prefixes \cup Keys, sched \in Schedules(DownloadErrors, DownloadOk) :
          DownloadFile(k, sched) /\ UNCHANGED <<flagVars, threadVars, plast>>
    \/ \E k \in Keys : \E ho \in HeadOutcomes(k) :
          CheckFileExists(k, ho) /\ UNCHANGED <<flagVars, threadVars, plast>>
    \/ \E u \in S3Uris :
          \E go \in GetObjectOutcomes(DownloadJsonRequest(u).bkt, DownloadJsonRequest(u).key) :
            DownloadJson(u, go) /\ UNCHANGED <<flagVars, threadVars, plast>>

-----------------------------------------------------------------------------
(* s3uri_generator.py, filepath_generator.py *)

\* Strings are sequences of characters.
Rep(c, n) == [i \in 1..n |-> c]

HexDigits == {"0", "1", "2", "3", "4", "5", "6", "7", "8", "9",
              "a", "b", "c", "d", "e", "f", "A", "B", "C", "D", "E", "F"}
Whitespace == {" ", "\t"}

\* str.replace(pat, ''): every occurrence of pat, left to right, is dropped.
RECURSIVE Remove(_, _)
Remove(str, pat) ==
    IF Len(str) < Len(pat) THEN str
    ELSE IF SubSeq(str, 1, Len(pat)) = pat
         THEN Remove(SubSeq(str, Len(pat) + 1, Len(str)), pat)
         ELSE <<Head(str)>> \o Remove(Tail(str), pat)

\* str.strip(chars)
RECURSIVE LStrip(_, _)
LStrip(str, chars) ==
    IF str # <<>> /\ Head(str) \in chars THEN LStrip(Tail(str), chars) ELSE str
RECURSIVE RStrip(_, _)
RStrip(str, chars) ==
    IF str # <<>> /\ str[Len(str)] \in chars
    THEN RStrip(SubSeq(str, 1, Len(str) - 1), chars) ELSE str
Strip(str, chars) == RStrip(LStrip(str, chars), chars)

\* The digits int() accepts: hexadecimal digits, single underscores between them.
DigitsOk(str) ==
    /\ str # <<>>
    /\ \A i \in 1..Len(str) : str[i] \in HexDigits \cup {"_"}
    /\ str[1] # "_" /\ str[Len(str)] # "_"
    /\ \A i \in 1..(Len(str) - 1) : ~(str[i] = "_" /\ str[i + 1] = "_")

\* int(str, 16) does not raise ValueError: surrounding whitespace, a sign, a
\* 0x prefix (with one underscore after it) and the digits.
IntBase16Ok(str) ==
    LET a == Strip(str, Whitespace)
        b == IF a # <<>> /\ Head(a) \in {"+", "-"} THEN Tail(a) ELSE a
        c == IF Len(b) >= 2 /\ b[1] = "0" /\ b[2] \in {"x", "X"}
             THEN LET d == SubSeq(b, 3, Len(b))
                  IN  IF d # <<>> /\ Head(d) = "_" THEN Tail(d) ELSE d
             ELSE b
    IN  DigitsOk(c)

\* uuid.UUID(hex) does not raise ValueError.
UUID(hex) ==
    LET h1 == Remove(Remove(hex, <<"u", "r", "n", ":">>), <<"u", "u", "i", "d", ":">>)
        h2 == Remove(Strip(h1, {"{", "}"}), <<"-">>)
    IN  Len(h2) = 32 /\ IntBase16Ok(h2)

Slash == <<"/">>
S3Scheme == <<"s", "3", ":", "/", "/">>

\* try: uuid.UUID(uc_uuid); uuid.UUID(file_uuid)
UuidsParse(uc_uuid, file_uuid) == UUID(uc_uuid) /\ UUID(file_uuid)

\* generate_s3uri(bucket_name, uc_uuid, file_category, file_uuid)
generate_s3uri(bucket_name, uc_uuid, file_category, file_uuid) ==
    IF bucket_name = <<>> THEN [exc |-> "ValueError", ret |-> <<>>]
    ELSE IF file_category = <<>> THEN [exc |-> "ValueError", ret |-> <<>>]
    ELSE IF ~UuidsParse(uc_uuid, file_uuid) THEN [exc |-> "ValueError", ret |-> <<>>]
    ELSE [exc |-> "none",
          ret |-> S3Scheme \o bucket_name \o Slash \o uc_uuid \o Slash
                  \o file_category \o Slash \o file_uuid]

\* Variant: the path is joined in the order of the parameters.
filepath_in_parameter_order(file_uuid, file_category, uc_uuid) ==
    IF file_uuid = <<>> THEN [exc |-> "ValueError", ret |-> <<>>]
    ELSE IF file_category = <<>> THEN [exc |-> "ValueError", ret |-> <<>>]
    ELSE IF uc_uuid = <<>> THEN [exc |-> "ValueError", ret |-> <<>>]
    ELSE [exc |-> "none",
          ret |-> file_uuid \o Slash \o file_category \o Slash \o uc_uuid]

\* filepath_generator(file_uuid, file_category, uc_uuid)
filepath_generator(file_uuid, file_category, uc_uuid) ==
    IF file_uuid = <<>> THEN [exc |-> "ValueError", ret |-> <<>>]
    ELSE IF file_category = <<>> THEN [exc |-> "ValueError", ret |-> <<>>]
    ELSE IF uc_uuid = <<>> THEN [exc |-> "ValueError", ret |-> <<>>]
    ELSE [exc |-> "none",
          ret |-> uc_uuid \o Slash \o file_category \o Slash \o file_uuid]

\* Arguments the helpers are called with.
Canonical == Rep("1", 8) \o <<"-">> \o Rep("a", 4) \o <<"-">> \o Rep("4", 4)
             \o <<"-">> \o Rep("b", 4) \o <<"-">> \o Rep("0", 12)
UuidArgs ==
    { Canonical,
      Rep("9", 8) \o <<"-">> \o Rep("F", 4) \o <<"-">> \o Rep("4", 4)
          \o <<"-">> \o Rep("B", 4) \o <<"-">> \o Rep("7", 12),
      Rep("f", 32),
      <<"{">> \o Canonical \o <<"}">>,
      <<"u", "r", "n", ":", "u", "u", "i", "d", ":">> \o Canonical,
      Rep("f", 31),
      <<"g">> \o Rep("f", 31),
      <<"i", "n", "v", "a", "l", "i", "d", "-", "u", "u", "i", "d">>,
      <<>>,
      <<"0", "x">> \o Rep("f", 30),
      <<" ">> \o Rep("f", 31),
      Rep("f", 31) \o <<"_">> }
NameArgs == {<<>>, <<"b">>, <<"d", "o", "c", "s">>}

pathVars == <<plast>>

NoPathCall == [op |-> "none", args |-> <<>>, exc |-> "none", ret |-> <<>>]

\* A call that has been made and has not returned yet.
Pending(op, args) == [op |-> op, args |-> args, exc |-> "pending", ret |-> <<>>]

PathCalls ==
    {Pending("generate_s3uri", <<b, u, c, f>>) :
        b \in NameArgs, u \in UuidArgs, c \in NameArgs, f \in UuidArgs}
    \cup
    {Pending("filepath_generator", <<f, c, u>>) :
        f \in NameArgs \cup {Canonical}, c \in NameArgs, u \in NameArgs \cup {Canonical}}

GenerateS3Uri ==
    /\ plast.op = "generate_s3uri" /\ plast.exc = "pending"
    /\ LET r == generate_s3uri(plast.args[1], plast.args[2], plast.args[3], plast.args[4])
       IN  plast' = [plast EXCEPT !.exc = r.exc, !.ret = r.ret]

FilepathGenerator ==
    /\ plast.op = "filepath_generator" /\ plast.exc = "pending"
    /\ LET r == filepath_generator(plast.args[1], plast.args[2], plast.args[3])
       IN  plast' = [plast EXCEPT !.exc = r.exc, !.ret = r.ret]

InitPaths == plast = NoPathCall

NextPaths ==
    \/ GenerateS3Uri /\ UNCHANGED <<flagVars, threadVars, s3Vars>>
    \/ FilepathGenerator /\ UNCHANGED <<flagVars, threadVars, s3Vars>>

vars == <<flagVars, threadVars, s3Vars, pathVars>>
Init == InitFlags /\ InitThreads /\ InitS3 /\ InitPaths
\* The storage client and the helpers do not read the flag identifiers.
InitStorage == Init /\ ids = AllIds
InitCalls == InitFlags /\ ids = AllIds /\ InitThreads /\ InitS3 /\ plast \in PathCalls

SpecFlags == Init /\ [][NextFlags]_vars
SpecS3 == InitStorage /\ [][NextS3]_vars
SpecPaths == InitCalls /\ [][NextPaths]_vars
SpecThreads == InitStorage /\ [][NextThreads]_vars

-----------------------------------------------------------------------------
(* Properties of the feature-flag client, checked under SpecFlags *)

\* What is_on answers from a JSON object m for `name` with default `default`.
Answer(m, name, default) ==
    IF IsBool(m[name]) THEN m[name] = "true" ELSE default

\* C1: a call made less than 45 s after the last call that touched a source
\* touches no source (no exists(), no open, no client, no session, no fetch),
\* whether that earlier attempt succeeded or failed; a call made 45 s or more
\* after it makes exactly one attempt, with at most one file read or
\* get_latest_configuration call (none only when the identifiers are missing or
\* no token was obtained), and when that fetch yields a JSON object the cache is
\* that object and the answer is read from it.
C1_OneFetchPerWindow ==
    flast.op = "is_on" =>
        /\ flast.window = "within" => flast.io = NoIO /\ _cache = flast.cacheBefore
        /\ flast.window = "expired" =>
              /\ flast.io.exists = 1
              /\ flast.io.open + flast.io.get <= 1
              /\ flast.io.open + flast.io.get = 0 => (ids # AllIds \/ _token = NoToken)
              /\ flast.src.kind = "dict" =>
                    /\ _cache = flast.src
                    /\ flast.exc = "none"
                    /\ flast.value = Answer(flast.src.m, flast.name, flast.default)

\* C1 witness: after the window a fetch from a changed source is seen.
C1_Witness ==
    /\ flast.op = "is_on" /\ flast.window = "expired"
    /\ flast.io.open + flast.io.get = 1
    /\ flast.src.kind = "dict" /\ flast.cacheBefore.kind = "dict"
    /\ flast.cacheBefore.m["f"] = "true" /\ flast.src.m["f"] = Missing
    /\ flast.default = FALSE /\ flast.value = FALSE

\* C2: is_on never raises: every call ends with a boolean answer.
C2_IsOnNeverRaises == flast.op = "is_on" => flast.exc = "none"

\* C3: the first is_on call of a fresh instance performs a refresh attempt,
\* whatever the clock reads.
C3_FirstCallRefreshes == (flast.op = "is_on" /\ flast.first) => flast.attempted

\* C4: after the refresh step, is_on(name, default) answers the cached value
\* when it is a boolean, default when name is absent, and default with a
\* warning when the cached value is not a boolean.
C4_IsOnFallback ==
    (flast.op = "is_on" /\ flast.exc = "none") =>
        LET v == _cache.m[flast.name]
        IN  /\ IsBool(v) => flast.value = (v = "true") /\ ~flast.warned
            /\ v = Missing => flast.value = flast.default /\ ~flast.warned
            /\ (v # Missing /\ ~IsBool(v)) => flast.value = flast.default /\ flast.warned

\* C4 witness: a non-boolean cached value answered by the default, with warning.
C4_Witness ==
    /\ flast.op = "is_on" /\ flast.exc = "none"
    /\ _cache.m[flast.name] = "str" /\ flast.warned
    /\ flast.default = FALSE /\ flast.value = FALSE

\* C5: in a refresh attempt that finds the local file, the file is read, the
\* cache is what it parses to, and there is no client creation, no
\* start_configuration_session, no get_latest_configuration, and the token is
\* unchanged; any remote operation happens in an attempt that found no file.
C5_LocalFilePrecedence ==
    (flast.op = "is_on" /\ flast.attempted) =>
        /\ flast.file # "absent" =>
              /\ flast.io.open = 1
              /\ flast.io.client = 0 /\ flast.io.start = 0 /\ flast.io.get = 0
              /\ _token = flast.tokenBefore
              /\ flast.file \in {"dict", "list"} => _cache = flast.src
        /\ flast.io.client + flast.io.start + flast.io.get > 0 => flast.file = "absent"

\* C5 witness: the file is found while the identifiers are all set and a
\* token from an earlier remote refresh is held.
C5_Witness ==
    /\ flast.op = "is_on" /\ flast.attempted
    /\ ids = AllIds /\ flast.tokenBefore # NoToken
    /\ flast.file = "dict" /\ _cache = flast.src /\ _cache # flast.cacheBefore

\* A refresh attempt ended with a parsed snapshot: JSON text was read and loaded.
Parsed == flast.src.kind \in {"dict", "list"}

\* C11: a refresh attempt that does not end with a parsed snapshot leaves the
\* cache as it was before the attempt: after an unreadable file, malformed or
\* undecodable content, a failed start_configuration_session or
\* get_latest_configuration, the return on missing identifiers (which makes no
\* session and no fetch call), the return without a token, and an empty body;
\* the call then answers from the snapshot held before.
C11_FailedRefreshKeepsCache ==
    (flast.op = "is_on" /\ flast.attempted) =>
        /\ ~Parsed =>
              /\ _cache = flast.cacheBefore
              /\ (flast.cacheBefore.kind = "dict" /\ flast.exc = "none") =>
                    flast.value = Answer(flast.cacheBefore.m, flast.name, flast.default)
        /\ (flast.file = "absent" /\ ids # AllIds) =>
              /\ flast.io.start = 0 /\ flast.io.get = 0
              /\ ~Parsed

\* C11 witness: a snapshot with the flag on is held, the next attempt reads a
\* file that is malformed JSON, and the call still answers on against default off.
C11_Witness ==
    /\ flast.op = "is_on" /\ flast.attempted
    /\ flast.file = "malformed"
    /\ flast.cacheBefore.kind = "dict" /\ flast.cacheBefore.m["f"] = "true"
    /\ _cache = flast.cacheBefore
    /\ flast.default = FALSE /\ flast.value = TRUE

\* C12: a configuration session is opened only in an attempt that starts with
\* no token held; a token that is held is never cleared, so no later attempt
\* opens a session; and every get_latest_configuration call is made with the
\* token the backend handed out last: the next-token of the last fetch that
\* returned one, else the token held before it.
C12_TokenLifecycle ==
    flast.op = "is_on" =>
        /\ flast.io.start = 1 => flast.tokenBefore = NoToken
        /\ flast.tokenBefore # NoToken => (_token # NoToken /\ flast.io.start = 0)
        /\ flast.io.get = 1 => (flast.used = flast.expect /\ flast.used # NoToken)
        /\ _token = issued

\* C12 witness: an attempt that starts with token 1 held opens no session,
\* fetches with token 1 and is handed token 2, which the instance now holds.
C12_Witness ==
    /\ flast.op = "is_on" /\ flast.tokenBefore = 1
    /\ flast.io.start = 0 /\ flast.io.get = 1
    /\ flast.used = 1 /\ _token = 2

\* get_latest_configuration was called in the last attempt and raised / returned.
GetFailed == flast.io.get = 1 /\ flast.src.kind = "absent"
GetReturned == flast.io.get = 1 /\ flast.src.kind # "absent"
BadBody == GetReturned /\ flast.src.kind \in {"malformed", "undecodable"}

\* C16 as stated: a remote refresh whose body is malformed ends with the cache
\* unchanged and the token advanced to the returned next-token; a remote
\* refresh whose get_latest_configuration fails ends with the cache and the
\* token as they were before the refresh.
C16_GetFailureKeepsToken ==
    flast.op = "is_on" =>
        /\ BadBody => (_cache = flast.cacheBefore /\ _token = issued)
        /\ GetFailed => (_cache = flast.cacheBefore /\ _token = flast.tokenBefore)

\* C16 amended: the token is replaced by the returned next-token when
\* get_latest_configuration returns, before the body is parsed, and is not
\* rolled back: after a malformed body the cache is unchanged and the token is
\* the one handed out; after a failed get_latest_configuration the cache is
\* unchanged and the token is the one the call was made with, which is the token
\* held before the refresh or the initial token of the session the same refresh
\* opened.
C16_TokenAdvancesBeforeParse ==
    flast.op = "is_on" =>
        /\ GetReturned => _token = issued
        /\ BadBody => _cache = flast.cacheBefore
        /\ GetFailed =>
              /\ _cache = flast.cacheBefore
              /\ _token = flast.used
              /\ flast.tokenBefore # NoToken => _token = flast.tokenBefore
              /\ flast.tokenBefore = NoToken => flast.io.start = 1

\* C16 witness: token 1 is held with the flag on in the cache, the fetch
\* returns next-token 2 with a malformed body: cache kept, token 2 held.
C16_Witness ==
    /\ flast.op = "is_on" /\ flast.src.kind = "malformed" /\ flast.io.get = 1
    /\ flast.used = 1 /\ _token = 2
    /\ _cache = flast.cacheBefore /\ _cache.m["f"] = "true"

-----------------------------------------------------------------------------
(* Properties of the feature-flag client under two threads, checked under
   SpecThreads *)

\* C13: nothing keeps two threads apart: both can pass the TTL check of one
\* window and both fetch (C13_Witness); as long as no call has begun while
\* another was in progress, a call passes the TTL check only 45 s or more after
\* the last call that passed it, so there is one fetch per window, made with a
\* token; and a session is opened or a fetch made only by a call that passed
\* the check.
C13_SerializedOneFetch ==
    \A t \in Threads :
        /\ (serial /\ thr[t].passed) => thr[t].window # "within"
        /\ (serial /\ thr[t].fetched) => thr[t].used # NoToken
        /\ (thr[t].fetched \/ thr[t].opened) => thr[t].passed

\* C13 witness: both threads read the same clock, both passed the TTL check,
\* both opened a configuration session and both called get_latest_configuration.
C13_Witness ==
    /\ ~serial
    /\ thr[1].now = thr[2].now
    /\ \A t \in Threads : thr[t].passed /\ thr[t].opened /\ thr[t].fetched
    /\ \E t \in Threads : thr[t].window = "within"

-----------------------------------------------------------------------------
(* Properties of the storage client, checked under SpecS3 *)

Transient(e) == e.type \in {"ClientError", "ConnectionError"}

\* The error of the backend in the i-th run of the last call, NoErr if none.
BackendError(i) ==
    LET x == s3last.sched[i]
    IN  IF s3last.op = "download_file"
        THEN (IF x.list # NoErr THEN x.list ELSE x.get)
        ELSE x

\* C6: upload_json, upload_xml and download_file retry a backend call that
\* fails with a ClientError or ConnectionError: failing so on every attempt
\* gives exactly 3 attempts and then S3UploadError / S3DownloadError; failing so
\* once and then succeeding gives success.
C6_RetriesTransientErrors ==
    (s3last.op \in {"upload_json", "upload_xml", "download_file"} /\ s3last.dumps) =>
        /\ s3last.attempts <= 3
        /\ (\A i \in 1..3 : Transient(BackendError(i))) =>
              /\ s3last.attempts = 3
              /\ s3last.exc.type \in {"S3UploadError", "S3DownloadError"}
        /\ (Transient(BackendError(1)) /\ BackendError(2) = NoErr) =>
              s3last.ret /\ s3last.exc = NoErr

\* The stored keys that have p as a prefix, and the first of them.
WithPrefix(p) == {k \in bucket : IsPrefix(p, k)}
FirstWithPrefix(p) ==
    CHOOSE k \in WithPrefix(p) : \A j \in WithPrefix(p) \ {k} : KeyLess(k, j)

\* C7: download_file lists by prefix first and downloads the first stored key
\* that has the requested key as a prefix, not the literal key; when such an
\* object exists and listing and download succeed it returns true after
\* exactly one list call and one download call.
C7_DownloadResolvesPrefix ==
    s3last.op = "download_file" =>
        /\ s3last.lists >= 1
        /\ s3last.gets <= s3last.lists
        /\ (WithPrefix(s3last.key) # {} /\ s3last.gets >= 1) =>
              s3last.used = FirstWithPrefix(s3last.key)
        /\ (WithPrefix(s3last.key) # {} /\ s3last.sched[1] = DownloadOk) =>
              /\ s3last.ret /\ s3last.exc = NoErr
              /\ s3last.lists = 1 /\ s3last.gets = 1

\* C7 witness: a prefix that is no stored key resolves to the first of two
\* stored keys under it and the download succeeds.
C7_Witness ==
    /\ s3last.op = "download_file" /\ s3last.key = <<1>>
    /\ bucket = {<<1, 2>>, <<1, 3>>}
    /\ s3last.used = <<1, 2>> /\ s3last.ret
    /\ s3last.lists = 1 /\ s3last.gets = 1

\* C14: when the listing succeeds and no stored key has the requested key as a
\* prefix, download_file goes on: it makes the backend download call with None
\* as the key, returns true when that call succeeds and raises S3DownloadError
\* exactly when that call fails.
C14_DownloadWithoutMatch ==
    (/\ s3last.op = "download_file"
     /\ WithPrefix(s3last.key) = {}
     /\ s3last.sched[1].list = NoErr) =>
        /\ s3last.lists = 1 /\ s3last.gets = 1
        /\ s3last.used = None
        /\ s3last.sched[1].get = NoErr => (s3last.ret /\ s3last.exc = NoErr)
        /\ s3last.sched[1].get # NoErr => s3last.exc = Err("S3DownloadError")

\* C14 witness: objects are stored, none under the requested key; the backend
\* is asked for the key None and the call returns true.
C14_Witness ==
    /\ s3last.op = "download_file" /\ s3last.key = <<3>>
    /\ bucket # {} /\ WithPrefix(s3last.key) = {}
    /\ s3last.gets = 1 /\ s3last.used = None /\ s3last.ret

\* C15: download_json(uri) makes exactly one get_object call and no listing, in
\* one run whatever the outcome; the call names the configured bucket, whichever
\* bucket the URI names, and the key is the path of the URI without its leading
\* slashes; an object stored under that key in the configured bucket is
\* returned although the URI names another bucket.
C15_DownloadJsonOneGet ==
    s3last.op = "download_json" =>
        /\ s3last.gets = 1 /\ s3last.lists = 0 /\ s3last.attempts = 1
        /\ s3last.bkt = BucketName
        /\ \A b \in {BucketName, OtherBucket}, n \in 1..2, k \in Keys :
              s3last.key = S3UriOf(b, n, k) =>
                  /\ s3last.used = k
                  /\ s3last.ret =>
                        (k \in bucket /\ s3last.sched[1].err = NoErr)
                  /\ (k \in bucket /\ s3last.sched[1] = [err |-> NoErr, body |-> "json"])
                        => (s3last.ret /\ s3last.exc = NoErr)
                  /\ s3last.sched[1].err # NoErr => s3last.exc = Err("S3DownloadError")

\* C15 witness: "s3://c//<1,2>" names the other bucket; the object <1,2> of
\* the configured bucket is returned.
C15_Witness ==
    /\ s3last.op = "download_json"
    /\ s3last.key = S3UriOf(OtherBucket, 2, <<1, 2>>)
    /\ s3last.used = <<1, 2>> /\ s3last.bkt = BucketName
    /\ <<1, 2>> \in bucket /\ s3last.ret

\* C8: check_file_exists answers true when the head probe succeeds, false when
\* it fails with a ClientError of code "404", and lets every other failure
\* through unchanged; it probes once.
C8_CheckFileExists ==
    s3last.op = "check_file_exists" =>
        LET ho == s3last.sched[1]
        IN  /\ s3last.heads = 1 /\ s3last.attempts = 1
            /\ ho = NoErr => s3last.ret /\ s3last.exc = NoErr
            /\ ho = ClientError("404") => ~s3last.ret /\ s3last.exc = NoErr
            /\ (ho # NoErr /\ ho # ClientError("404")) => s3last.exc = ho

\* C8 witness: a probe refused with 403 surfaces as that same ClientError.
C8_Witness ==
    /\ s3last.op = "check_file_exists"
    /\ s3last.sched[1] = ClientError("403")
    /\ s3last.exc = ClientError("403")

-----------------------------------------------------------------------------
(* Properties of the path helpers, checked under SpecPaths *)

Returned == plast.exc # "pending"

\* The textual forms of a UUID: 32 hexadecimal digits, plain or hyphenated
\* 8-4-4-4-12, optionally in braces or after "urn:uuid:".
IsHex(str) == \A i \in 1..Len(str) : str[i] \in HexDigits
IsPlainUuid(str) ==
    \/ Len(str) = 32 /\ IsHex(str)
    \/ /\ Len(str) = 36
       /\ \A i \in {9, 14, 19, 24} : str[i] = "-"
       /\ IsHex(SubSeq(str, 1, 8)) /\ IsHex(SubSeq(str, 10, 13))
       /\ IsHex(SubSeq(str, 15, 18)) /\ IsHex(SubSeq(str, 20, 23))
       /\ IsHex(SubSeq(str, 25, 36))
IsValidUuid(str) ==
    \/ IsPlainUuid(str)
    \/ Len(str) >= 2 /\ str[1] = "{" /\ str[Len(str)] = "}"
       /\ IsPlainUuid(SubSeq(str, 2, Len(str) - 1))
    \/ Len(str) >= 9 /\ SubSeq(str, 1, 9) = <<"u", "r", "n", ":", "u", "u", "i", "d", ":">>
       /\ IsPlainUuid(SubSeq(str, 10, Len(str)))

\* C9: generate_s3uri returns "s3://<bucket>/<uc_uuid>/<category>/<file_uuid>"
\* exactly when bucket and category are non-empty and uc_uuid and file_uuid are
\* valid UUIDs, and raises ValueError in every other case.
C9_S3UriIffValid ==
    (plast.op = "generate_s3uri" /\ Returned) =>
        LET b == plast.args[1]
            u == plast.args[2]
            c == plast.args[3]
            f == plast.args[4]
        IN  IF b # <<>> /\ c # <<>> /\ IsValidUuid(u) /\ IsValidUuid(f)
            THEN /\ plast.exc = "none"
                 /\ plast.ret = S3Scheme \o b \o Slash \o u \o Slash \o c \o Slash \o f
            ELSE plast.exc = "ValueError" /\ plast.ret = <<>>

\* C10: filepath_generator returns "<uc_uuid>/<file_category>/<file_uuid>" when
\* its three arguments are non-empty and raises ValueError when any is empty.
C10_FilepathGenerator ==
    (plast.op = "filepath_generator" /\ Returned) =>
        LET f == plast.args[1]
            c == plast.args[2]
            u == plast.args[3]
        IN  IF f # <<>> /\ c # <<>> /\ u # <<>>
            THEN plast.exc = "none" /\ plast.ret = u \o <<"/">> \o c \o <<"/">> \o f
            ELSE plast.exc = "ValueError" /\ plast.ret = <<>>

\* C10 witness: three distinct non-empty arguments, joined owner first.
C10_Witness ==
    /\ plast.op = "filepath_generator" /\ Returned
    /\ plast.args = <<Canonical, <<"d", "o", "c", "s">>, <<"b">>>>
    /\ plast.ret = <<"b", "/", "d", "o", "c", "s", "/">> \o Canonical

====
